---- MODULE Spec2Model ----
(***************************************************************************)
(* The glossary-driven translation tools of the repository:                *)
(*   scripts/翻译脚本.py          forward rewriter (TranslationLibrary,     *)
(*                                INITranslator)                           *)
(*   scripts/反向翻译脚本.py      reverse rewriter (ReverseTranslation-     *)
(*                                Library, ReverseTranslator)              *)
(*   scripts/工具集/查重工具.py   reverse rewriter with section prefix      *)
(*                                fallback and a translation log           *)
(*   scripts/工具集/一键查重.py   glossary checker plus the same rewriter   *)
(*   scripts/工具集/查重翻译库.py glossary checker (check_duplicates)       *)
(*                                                                         *)
(* Text is a sequence of one-character strings.  The alphabet of the model *)
(* is letters (Latin and CJK), the underscore, and the punctuation marks   *)
(* of Punct; "\n" is the line terminator.                                  *)
(***************************************************************************)
EXTENDS Integers, Sequences, FiniteSets, TLC

(***************************************************************************)
(* Characters                                                              *)
(***************************************************************************)

\* Characters of the model that Python's \w does not match.
Punct == {" ", "\n", "[", "]", "=", ":", "#", ",", "@", "+"}

\* re: \w (letters, digits, underscore; CJK letters are \w for str patterns)
IsWord(c) == c \notin Punct

\* str.strip() / re: \s
IsSpace(c) == c \in {" ", "\n"}

(***************************************************************************)
(* str methods                                                             *)
(***************************************************************************)

\* index of the first non-blank character of s, Len(s)+1 when there is none
FirstNonSpace(s) ==
    IF \E i \in 1..Len(s) : ~IsSpace(s[i])
    THEN CHOOSE i \in 1..Len(s) : ~IsSpace(s[i]) /\ \A j \in 1..(i-1) : IsSpace(s[j])
    ELSE Len(s) + 1

\* index of the last non-blank character of s, 0 when there is none
LastNonSpace(s) ==
    IF \E i \in 1..Len(s) : ~IsSpace(s[i])
    THEN CHOOSE i \in 1..Len(s) : ~IsSpace(s[i]) /\ \A j \in (i+1)..Len(s) : IsSpace(s[j])
    ELSE 0

\* str.strip()
strip(s) == SubSeq(s, FirstNonSpace(s), LastNonSpace(s))

\* str.rstrip()
rstrip(s) == SubSeq(s, 1, LastNonSpace(s))

\* str.rstrip('\n\r')
rstrip_newline(s) ==
    IF \E i \in 1..Len(s) : s[i] # "\n"
    THEN SubSeq(s, 1, CHOOSE i \in 1..Len(s) : s[i] # "\n" /\ \A j \in (i+1)..Len(s) : s[j] = "\n")
    ELSE <<>>

\* str.find(c) for a single character, 1-based; 0 when c does not occur
Find(s, c) ==
    IF \E i \in 1..Len(s) : s[i] = c
    THEN CHOOSE i \in 1..Len(s) : s[i] = c /\ \A j \in 1..(i-1) : s[j] # c
    ELSE 0

\* c in s
Contains(s, c) == \E i \in 1..Len(s) : s[i] = c

\* s.split(c, 1) when c occurs in s: the parts before and after the first c
split_once(s, c) == <<SubSeq(s, 1, Find(s, c) - 1), SubSeq(s, Find(s, c) + 1, Len(s))>>

\* s.split(c): all the parts, in order
RECURSIVE split(_, _)
split(s, c) ==
    IF ~Contains(s, c) THEN <<s>>
    ELSE <<split_once(s, c)[1]>> \o split(split_once(s, c)[2], c)

\* sep.join(parts)
RECURSIVE join(_, _)
join(sep, parts) ==
    IF Len(parts) = 0 THEN <<>>
    ELSE IF Len(parts) = 1 THEN parts[1]
    ELSE parts[1] \o sep \o join(sep, Tail(parts))

\* s.startswith(c) for a single character
startswith(s, c) == Len(s) > 0 /\ s[1] = c

\* str.lower() on the letters of the model's alphabet
LowerChar(c) ==
    CASE c = "T" -> "t" [] c = "R" -> "r" [] c = "U" -> "u" [] c = "E" -> "e"
      [] c = "F" -> "f" [] c = "A" -> "a" [] c = "L" -> "l" [] c = "S" -> "s"
      [] c = "N" -> "n" [] c = "D" -> "d" [] c = "W" -> "w" [] c = "I" -> "i"
      [] c = "O" -> "o" [] c = "P" -> "p" [] c = "X" -> "x" [] c = "Y" -> "y"
      [] c = "Z" -> "z" [] c = "H" -> "h" [] c = "K" -> "k"
      [] OTHER -> c

lower(s) == [i \in 1..Len(s) |-> LowerChar(s[i])]

(***************************************************************************)
(* dict: insertion-ordered, as a sequence of <<key, value>> pairs with      *)
(* distinct keys                                                           *)
(***************************************************************************)

dict_keys(d) == [i \in 1..Len(d) |-> d[i][1]]

dict_values(d) == {d[i][2] : i \in 1..Len(d)}

dict_has(d, k) == \E i \in 1..Len(d) : d[i][1] = k

\* d[k] for a key that is present
dict_at(d, k) == d[CHOOSE i \in 1..Len(d) : d[i][1] = k][2]

\* d.get(k, default)
dict_get(d, k, default) == IF dict_has(d, k) THEN dict_at(d, k) ELSE default

\* d[k] = v: an existing key keeps its position, a new key goes last
dict_set(d, k, v) ==
    IF dict_has(d, k)
    THEN [i \in 1..Len(d) |-> IF d[i][1] = k THEN <<k, v>> ELSE d[i]]
    ELSE Append(d, <<k, v>>)

(***************************************************************************)
(* The reserved literal spellings                                          *)
(***************************************************************************)

S_true == <<"t", "r", "u", "e">>
S_false == <<"f", "a", "l", "s", "e">>
S_TRUE == <<"T", "R", "U", "E">>
S_FALSE == <<"F", "A", "L", "S", "E">>
S_True == <<"T", "r", "u", "e">>
S_False == <<"F", "a", "l", "s", "e">>
S_LAND == <<"L", "A", "N", "D">>
S_WATER == <<"W", "A", "T", "E", "R">>
S_HOVER == <<"H", "O", "V", "E", "R">>
S_AIR == <<"A", "I", "R">>
S_OVER_CLIFF == <<"O", "V", "E", "R", "_", "C", "L", "I", "F", "F">>
S_OVER_CLIFF_WATER == <<"O", "V", "E", "R", "_", "C", "L", "I", "F", "F", "_", "W", "A", "T", "E", "R">>
S_AUTO == <<"A", "U", "T", "O">>
S_NONE == <<"N", "O", "N", "E">>

\* TranslationLibrary.load_library: the list of value (literal) spellings
FORWARD_SPECIAL_VALUES ==
    {S_true, S_false, S_TRUE, S_FALSE, S_True, S_False,
     S_LAND, S_WATER, S_HOVER, S_AIR, S_OVER_CLIFF, S_AUTO, S_NONE}

\* ReverseTranslationLibrary.SPECIAL_VALUES
SPECIAL_VALUES ==
    {S_true, S_false, S_TRUE, S_FALSE, S_True, S_False,
     S_LAND, S_WATER, S_HOVER, S_AIR, S_OVER_CLIFF, S_OVER_CLIFF_WATER,
     S_AUTO, S_NONE}

(***************************************************************************)
(* Glossary lines, as the loaders read them                                *)
(***************************************************************************)

\* index of the first non-blank character of s at or after i (Len(s)+1 if none)
SkipSpace(s, i) ==
    IF \E k \in i..Len(s) : ~IsSpace(s[k])
    THEN CHOOSE k \in i..Len(s) : ~IsSpace(s[k]) /\ \A j \in i..(k-1) : IsSpace(s[j])
    ELSE Len(s) + 1

\* re.match(r'^\[(.+?)\]\s*=\s*\[(.+?)\]$', line) succeeds with the first
\* group closed by the "]" at index i
SectionEntryAt(line, i) ==
    /\ Len(line) >= 1 /\ line[1] = "["
    /\ i >= 3 /\ i <= Len(line) /\ line[i] = "]"
    /\ LET e == SkipSpace(line, i + 1) IN
       /\ e <= Len(line) /\ line[e] = "="
       /\ LET b == SkipSpace(line, e + 1) IN
          /\ b <= Len(line) /\ line[b] = "["
          /\ Len(line) >= b + 2
          /\ line[Len(line)] = "]"

\* the pattern matches (the line is already stripped)
IsSectionEntry(line) == \E i \in 1..Len(line) : SectionEntryAt(line, i)

\* groups 1 and 2 of the match; the lazy first group ends at the first "]"
\* that lets the rest of the pattern match
SectionEntryGroups(line) ==
    LET i == CHOOSE k \in 1..Len(line) :
                 SectionEntryAt(line, k) /\ \A j \in 1..(k-1) : ~SectionEntryAt(line, j)
        b == SkipSpace(line, SkipSpace(line, i + 1) + 1)
    IN  <<SubSeq(line, 2, i - 1), SubSeq(line, b + 1, Len(line) - 1)>>

\* A library: the three dictionaries and the priority list of key terms.
EmptyLibrary ==
    [translations |-> <<>>, section_translations |-> <<>>,
     value_translations |-> <<>>, sorted_keys |-> <<>>]

\* a loader that tells no reserved spelling from a key
load_line_all_keys(lib, raw) ==
    LET line == strip(raw) IN
    IF Len(line) = 0 \/ startswith(line, "#") THEN lib
    ELSE IF IsSectionEntry(line)
    THEN LET eng == strip(SectionEntryGroups(line)[1])
             chn == strip(SectionEntryGroups(line)[2])
         IN [lib EXCEPT !.section_translations = dict_set(@, eng, chn)]
    ELSE IF Contains(line, "=")
    THEN LET eng == strip(split_once(line, "=")[1])
             chn == strip(split_once(line, "=")[2])
         IN [lib EXCEPT !.translations = dict_set(@, eng, chn)]
    ELSE lib

\* TranslationLibrary.load_library, the body of the loop for one line
load_line(lib, raw) ==
    LET line == strip(raw) IN
    IF Len(line) = 0 \/ startswith(line, "#") THEN lib
    ELSE IF IsSectionEntry(line)
    THEN LET eng == strip(SectionEntryGroups(line)[1])
             chn == strip(SectionEntryGroups(line)[2])
         IN [lib EXCEPT !.section_translations = dict_set(@, eng, chn)]
    ELSE IF Contains(line, "=")
    THEN LET eng == strip(split_once(line, "=")[1])
             chn == strip(split_once(line, "=")[2])
         IN IF eng \in FORWARD_SPECIAL_VALUES
            THEN [lib EXCEPT !.value_translations = dict_set(@, eng, chn)]
            ELSE [lib EXCEPT !.translations = dict_set(@, eng, chn)]
    ELSE lib

\* TranslationLibrary.load_library, the loop over content.split('\n')
RECURSIVE load_lines(_, _)
load_lines(lib, lines) ==
    IF Len(lines) = 0 THEN lib
    ELSE load_lines(load_line(lib, Head(lines)), Tail(lines))

\* ReverseTranslationLibrary._load_library, the body of the loop for one line
reverse_load_line(lib, raw) ==
    LET line == strip(raw) IN
    IF Len(line) = 0 \/ startswith(line, "#") THEN lib
    ELSE IF IsSectionEntry(line)
    THEN LET eng == strip(SectionEntryGroups(line)[1])
             chn == strip(SectionEntryGroups(line)[2])
         IN [lib EXCEPT !.section_translations = dict_set(@, chn, eng)]
    ELSE IF Contains(line, "=")
    THEN LET eng == strip(split_once(line, "=")[1])
             chn == strip(split_once(line, "=")[2])
         IN IF eng \in SPECIAL_VALUES
            THEN [lib EXCEPT !.value_translations = dict_set(@, chn, eng)]
            ELSE [lib EXCEPT !.translations = dict_set(@, chn, eng)]
    ELSE lib

\* ReverseTranslationLibrary._load_library, the loop over content.split('\n')
RECURSIVE reverse_load_lines(_, _)
reverse_load_lines(lib, lines) ==
    IF Len(lines) = 0 THEN lib
    ELSE reverse_load_lines(reverse_load_line(lib, Head(lines)), Tail(lines))

(***************************************************************************)
(* The priority list and the word-boundary patterns                        *)
(***************************************************************************)

\* sorted(keys, key=len, reverse=True): stable, longest first.  Insert x
\* behind every element that is at least as long.
RECURSIVE insert_by_len(_, _)
insert_by_len(sorted, x) ==
    IF Len(sorted) = 0 THEN <<x>>
    ELSE IF Len(Head(sorted)) >= Len(x)
         THEN <<Head(sorted)>> \o insert_by_len(Tail(sorted), x)
         ELSE <<x>> \o sorted

RECURSIVE sorted_by_len_desc(_)
sorted_by_len_desc(keys) ==
    IF Len(keys) = 0 THEN <<>>
    ELSE insert_by_len(sorted_by_len_desc(SubSeq(keys, 1, Len(keys) - 1)), keys[Len(keys)])

\* [k for k in translations.keys() if k not in translations.values()]
RECURSIVE valid_keys(_, _)
valid_keys(keys, values) ==
    IF Len(keys) = 0 THEN <<>>
    ELSE IF Head(keys) \in values THEN valid_keys(Tail(keys), values)
    ELSE <<Head(keys)>> \o valid_keys(Tail(keys), values)

\* INITranslator._compile_translation_patterns /
\* ReverseTranslationLibrary._compile_patterns: the priority list
compile_patterns(lib) ==
    [lib EXCEPT !.sorted_keys =
        sorted_by_len_desc(valid_keys(dict_keys(lib.translations),
                                      dict_values(lib.translations)))]

\* re: \b at the gap before text[i] (i in 1..Len+1): exactly one side is \w
\* a pattern compiled without the \b anchors matches anywhere
NoWordBoundary(text, i) == TRUE

WordBoundary(text, i) ==
    LET before == i >= 2 /\ i - 1 <= Len(text) /\ IsWord(text[i - 1])
        after  == i >= 1 /\ i <= Len(text) /\ IsWord(text[i])
    IN  before # after

\* the pattern \b<term>\b matches text at index i
MatchAt(term, text, i) ==
    /\ i + Len(term) - 1 <= Len(text)
    /\ SubSeq(text, i, i + Len(term) - 1) = term
    /\ WordBoundary(text, i)
    /\ WordBoundary(text, i + Len(term))

\* pattern.search(text)
pattern_search(term, text) == \E i \in 1..(Len(text) + 1) : MatchAt(term, text, i)

\* pattern.sub(repl, text) from index i on: leftmost non-overlapping matches,
\* scanned in the unmodified text; an empty match copies the next character
RECURSIVE pattern_sub_from(_, _, _, _)
pattern_sub_from(term, repl, text, i) ==
    IF i > Len(text) + 1 THEN <<>>
    ELSE IF MatchAt(term, text, i)
    THEN IF Len(term) > 0
         THEN repl \o pattern_sub_from(term, repl, text, i + Len(term))
         ELSE repl \o (IF i <= Len(text) THEN <<text[i]>> ELSE <<>>)
                   \o pattern_sub_from(term, repl, text, i + 1)
    ELSE (IF i <= Len(text) THEN <<text[i]>> ELSE <<>>)
             \o pattern_sub_from(term, repl, text, i + 1)

pattern_sub(term, repl, text) == pattern_sub_from(term, repl, text, 1)

\* What translating a value returns (out) and the number of times it
\* increments lines_translated on the way (lines).
Translated(out, lines) == [out |-> out, lines |-> lines]

\* the loop of INITranslator.translate_value / translate_in_text over the
\* priority list: each pattern is applied to the result of the previous one,
\* and each pattern that matches increments lines_translated (n so far)
RECURSIVE apply_patterns(_, _, _, _)
apply_patterns(keys, translations, text, n) ==
    IF Len(keys) = 0 THEN Translated(text, n)
    ELSE IF pattern_search(Head(keys), text)
    THEN apply_patterns(Tail(keys), translations,
                        pattern_sub(Head(keys), dict_at(translations, Head(keys)), text),
                        n + 1)
    ELSE apply_patterns(Tail(keys), translations, text, n)

\* ReverseTranslationLibrary.translate_in_text
translate_in_text(lib, text) == apply_patterns(lib.sorted_keys, lib.translations, text, 0)

(***************************************************************************)
(* Line grammar of the rewriters                                           *)
(***************************************************************************)

\* re.match(r'^(\s*)\[([^\]]+)\](\s*)$', line): SECTION_PATTERN
IsSectionLine(line) ==
    LET i == FirstNonSpace(line) IN
    /\ i <= Len(line) /\ line[i] = "["
    /\ LET c == i + Find(SubSeq(line, i + 1, Len(line)), "]") IN
       /\ c >= i + 2
       /\ \A j \in (c + 1)..Len(line) : IsSpace(line[j])

\* the groups of SECTION_PATTERN: indent, section name, trailing blanks
SectionGroups(line) ==
    LET i == FirstNonSpace(line)
        c == i + Find(SubSeq(line, i + 1, Len(line)), "]")
    IN  [indent   |-> SubSeq(line, 1, i - 1),
         name     |-> SubSeq(line, i + 1, c - 1),
         trailing |-> SubSeq(line, c + 1, Len(line))]

\* index of the first ":" or "=" of line, 0 when there is none
FirstSeparator(line) ==
    IF \E i \in 1..Len(line) : line[i] \in {":", "="}
    THEN CHOOSE i \in 1..Len(line) :
             line[i] \in {":", "="} /\ \A j \in 1..(i-1) : line[j] \notin {":", "="}
    ELSE 0

\* re.match(r'^(\s*)([^:=#\[]+?)([:=])(.+?)(\s*)$', line) for the forward
\* rewriter (min_value = 1) and KV_PATTERN, with (.*?), for the reverse
\* rewriters (min_value = 0)
IsKVLine(line, min_value) ==
    LET p == FirstSeparator(line) IN
    /\ p >= 2
    /\ \A j \in 1..(p - 1) : line[j] \notin {"#", "["}
    /\ Len(line) - p >= min_value

\* the groups of the key-value pattern
KVGroups(line, min_value) ==
    LET p    == FirstSeparator(line)
        head == SubSeq(line, 1, p - 1)
        n    == IF FirstNonSpace(head) > Len(head) THEN Len(head) - 1
                ELSE FirstNonSpace(head) - 1
        rest == SubSeq(line, p + 1, Len(line))
        m    == IF LastNonSpace(rest) < min_value THEN min_value ELSE LastNonSpace(rest)
    IN  [indent    |-> SubSeq(head, 1, n),
         key       |-> SubSeq(head, n + 1, Len(head)),
         separator |-> <<line[p]>>,
         value     |-> SubSeq(rest, 1, m),
         trailing  |-> SubSeq(rest, m + 1, Len(rest))]

\* What one call of a rewriter returns and adds to its statistics and log.
Result(out, sections, keys, lines, log) ==
    [out |-> out, sections |-> sections, keys |-> keys, lines |-> lines, log |-> log]

LogEntry(kind, chinese, english) == [kind |-> kind, chinese |-> chinese, english |-> english]

(***************************************************************************)
(* scripts/翻译脚本.py: TranslationLibrary getters and INITranslator        *)
(***************************************************************************)

\* TranslationLibrary.get_translation
get_translation(lib, key) == dict_get(lib.translations, key, key)

\* TranslationLibrary.get_section_translation
get_section_translation(lib, section) == dict_get(lib.section_translations, section, section)

\* TranslationLibrary.get_value_translation
get_value_translation(lib, value) == dict_get(lib.value_translations, value, value)

\* INITranslator.translate_value: the branch that looks the value up in the
\* value dictionary, or "none" when the key patterns are applied instead
translate_value_lookup(value) ==
    IF lower(value) \in {S_true, S_false} THEN lower(value)
    ELSE IF value \in {S_LAND, S_WATER, S_HOVER, S_AIR, S_OVER_CLIFF} THEN value
    ELSE IF value \in {S_AUTO, S_NONE} THEN value
    ELSE <<"none">>

\* INITranslator.translate_value
translate_value(lib, value) ==
    IF translate_value_lookup(value) # <<"none">>
    THEN Translated(get_value_translation(lib, translate_value_lookup(value)), 0)
    ELSE apply_patterns(lib.sorted_keys, lib.translations, value, 0)

\* INITranslator.translate_line, the section branch
forward_section_line(lib, line_content) ==
    LET g       == SectionGroups(line_content)
        hash    == Contains(g.name, "#")
        name    == IF hash THEN strip(split_once(g.name, "#")[1]) ELSE g.name
        comment == IF hash THEN <<"#">> \o split_once(g.name, "#")[2] ELSE <<>>
        translated_section == get_section_translation(lib, name)
    IN  Result(g.indent \o <<"[">> \o translated_section \o <<"]">> \o g.trailing
                   \o comment \o <<"\n">>,
               IF translated_section # name THEN 1 ELSE 0, 0, 0, <<>>)

\* INITranslator.translate_line, the key-value branch
forward_kv_line(lib, line_content) ==
    LET g       == KVGroups(line_content, 1)
        key     == strip(g.key)
        value0  == strip(g.value)
        hash    == Contains(value0, "#")
        value   == IF hash THEN strip(split_once(value0, "#")[1]) ELSE value0
        comment == IF hash THEN <<" ", "#">> \o split_once(value0, "#")[2] ELSE <<>>
        translated_key   == get_translation(lib, key)
        translated_value == translate_value(lib, value)
    IN  Result(g.indent \o translated_key \o g.separator \o translated_value.out
                   \o comment \o <<"\n">>,
               0,
               IF translated_key # key THEN 1 ELSE 0,
               translated_value.lines + (IF translated_value.out # value THEN 1 ELSE 0),
               <<>>)

\* a rewriter that substitutes the key terms in the whole line, whatever the
\* line is
translate_line_everywhere(lib, line) ==
    Result(translate_in_text(lib, line).out, 0, 0, 0, <<>>)

\* INITranslator.translate_line
translate_line(lib, line) ==
    LET line_content == rstrip_newline(line)
        stripped     == strip(line_content)
        same         == IF Len(line) > 0 /\ line[Len(line)] = "\n"
                        THEN line_content \o <<"\n">> ELSE line_content
    IN  IF Len(stripped) = 0 \/ startswith(stripped, "#") THEN Result(same, 0, 0, 0, <<>>)
        ELSE IF IsSectionLine(line_content) THEN forward_section_line(lib, line_content)
        ELSE IF IsKVLine(line_content, 1) THEN forward_kv_line(lib, line_content)
        ELSE Result(same, 0, 0, 0, <<>>)

(***************************************************************************)
(* scripts/反向翻译脚本.py: ReverseTranslator                               *)
(***************************************************************************)

\* ReverseTranslator._translate_single_value
reverse_translate_single_value(lib, value) ==
    IF get_value_translation(lib, value) # value
    THEN Translated(get_value_translation(lib, value), 0)
    ELSE translate_in_text(lib, value)

\* [part.strip() for part in value.split(',')]
stripped_parts(value) == [i \in 1..Len(split(value, ",")) |-> strip(split(value, ",")[i])]

RECURSIVE sum_lines(_)
sum_lines(parts) ==
    IF Len(parts) = 0 THEN 0 ELSE Head(parts).lines + sum_lines(Tail(parts))

\* ReverseTranslator._translate_value (反向翻译脚本.py, 查重工具.py)
reverse_translate_value(lib, value) ==
    IF Contains(value, ",")
    THEN LET parts == stripped_parts(value)
             translated_parts ==
                 [i \in 1..Len(parts) |-> reverse_translate_single_value(lib, parts[i])]
             changed == \E i \in 1..Len(parts) : translated_parts[i].out # parts[i]
         IN  Translated(join(<<",", " ">>,
                             [i \in 1..Len(parts) |-> translated_parts[i].out]),
                        sum_lines(translated_parts) + (IF changed THEN 1 ELSE 0))
    ELSE reverse_translate_single_value(lib, value)

\* ReverseTranslator._translate_section_line
reverse_translate_section_line(lib, line) ==
    LET g       == SectionGroups(line)
        hash    == Contains(g.name, "#")
        name    == IF hash THEN strip(split_once(g.name, "#")[1]) ELSE g.name
        comment == IF hash THEN <<"#">> \o split_once(g.name, "#")[2] ELSE <<>>
        translated_section == get_section_translation(lib, name)
    IN  Result(g.indent \o <<"[">> \o translated_section \o <<"]">> \o g.trailing \o comment,
               IF translated_section # name THEN 1 ELSE 0, 0, 0, <<>>)

\* ReverseTranslator._translate_kv_line
reverse_translate_kv_line(lib, line) ==
    LET g       == KVGroups(line, 0)
        key     == strip(g.key)
        value0  == strip(g.value)
        hash    == Contains(value0, "#")
        value   == IF hash THEN strip(split_once(value0, "#")[1]) ELSE value0
        comment == IF hash THEN <<" ", "#">> \o split_once(value0, "#")[2] ELSE <<>>
        translated_key == get_translation(lib, key)
        translated_value == reverse_translate_value(lib, value)
    IN  Result(g.indent \o translated_key \o g.separator
                   \o translated_value.out \o comment,
               0,
               IF translated_key # key THEN 1 ELSE 0,
               translated_value.lines,
               <<>>)

\* ReverseTranslator._translate_line
reverse_translate_line(lib, line) ==
    IF Len(strip(line)) = 0 \/ startswith(strip(line), "#") THEN Result(line, 0, 0, 0, <<>>)
    ELSE IF IsSectionLine(line) THEN reverse_translate_section_line(lib, line)
    ELSE IF IsKVLine(line, 0) THEN reverse_translate_kv_line(lib, line)
    ELSE Result(line, 0, 0, 0, <<>>)

(***************************************************************************)
(* scripts/工具集/查重工具.py and scripts/工具集/一键查重.py:               *)
(* ReverseTranslator with the section prefix fallback and the log          *)
(***************************************************************************)

\* ReverseTranslator._translate_prefixed_section: the returned name
translate_prefixed_section(lib, section_name) ==
    LET prefix == split_once(section_name, "_")[1]
        suffix == split_once(section_name, "_")[2]
    IN  IF ~Contains(section_name, "_") THEN section_name
        ELSE IF get_section_translation(lib, prefix) = prefix THEN section_name
        ELSE get_section_translation(lib, prefix) \o <<"_">> \o suffix

\* ReverseTranslator._translate_prefixed_section: what it appends to the log
translate_prefixed_section_log(lib, section_name) ==
    IF translate_prefixed_section(lib, section_name) = section_name THEN <<>>
    ELSE <<LogEntry("section", section_name, translate_prefixed_section(lib, section_name))>>

\* ReverseTranslator._translate_section_line (查重工具.py, 一键查重.py)
tool_translate_section_line(lib, line) ==
    LET g       == SectionGroups(line)
        hash    == Contains(g.name, "#")
        name    == IF hash THEN strip(split_once(g.name, "#")[1]) ELSE g.name
        comment == IF hash THEN <<"#">> \o split_once(g.name, "#")[2] ELSE <<>>
        translated_section == get_section_translation(lib, name)
        translated == translate_prefixed_section(lib, name)
        wrap(n) == g.indent \o <<"[">> \o n \o <<"]">> \o g.trailing \o comment
    IN  IF translated_section # name
        THEN Result(wrap(translated_section), 1, 0, 0,
                    <<LogEntry("section", name, translated_section)>>)
        ELSE IF Contains(name, "_") /\ translated # name
        THEN Result(wrap(translated), 0, 0, 0,
                    translate_prefixed_section_log(lib, name)
                        \o <<LogEntry("section", name, translated)>>)
        ELSE Result(wrap(name), 0, 0, 0, <<>>)

\* What the rewriters with a log get from translating a value: the value,
\* the lines_translated increments and the log entries.
Logged(out, lines, entries) == [out |-> out, lines |-> lines, log |-> entries]

\* ReverseTranslator._translate_single_value (查重工具.py, 一键查重.py)
tool_translate_single_value(lib, value) ==
    IF get_value_translation(lib, value) # value
    THEN Logged(get_value_translation(lib, value), 0,
                <<LogEntry("value", value, get_value_translation(lib, value))>>)
    ELSE LET result == translate_in_text(lib, value)
         IN  Logged(result.out, result.lines,
                    IF result.out # value
                    THEN <<LogEntry("text", value, result.out)>> ELSE <<>>)

RECURSIVE concat_entries(_)
concat_entries(parts) ==
    IF Len(parts) = 0 THEN <<>> ELSE Head(parts).log \o concat_entries(Tail(parts))

\* ReverseTranslator._translate_value (查重工具.py; 一键查重.py has no
\* "changed" increment)
tool_translate_value(lib, value) ==
    IF Contains(value, ",")
    THEN LET parts == stripped_parts(value)
             translated_parts ==
                 [i \in 1..Len(parts) |-> tool_translate_single_value(lib, parts[i])]
             changed == \E i \in 1..Len(parts) : translated_parts[i].out # parts[i]
         IN  Logged(join(<<",", " ">>,
                         [i \in 1..Len(parts) |-> translated_parts[i].out]),
                    sum_lines(translated_parts) + (IF changed THEN 1 ELSE 0),
                    concat_entries(translated_parts))
    ELSE tool_translate_single_value(lib, value)

\* ReverseTranslator._translate_kv_line (查重工具.py; count_lines is FALSE for
\* 一键查重.py, whose translate_in_text and _translate_value count nothing)
tool_translate_kv_line(lib, line, count_lines) ==
    LET g       == KVGroups(line, 0)
        key     == strip(g.key)
        value0  == strip(g.value)
        hash    == Contains(value0, "#")
        value   == IF hash THEN strip(split_once(value0, "#")[1]) ELSE value0
        comment == IF hash THEN <<" ", "#">> \o split_once(value0, "#")[2] ELSE <<>>
        translated_key   == get_translation(lib, key)
        translated_value == tool_translate_value(lib, value)
    IN  Result(g.indent \o translated_key \o g.separator
                   \o translated_value.out \o comment,
               0,
               IF translated_key # key THEN 1 ELSE 0,
               IF count_lines THEN translated_value.lines ELSE 0,
               (IF translated_key # key THEN <<LogEntry("key", key, translated_key)>> ELSE <<>>)
                   \o translated_value.log)

\* ReverseTranslator._translate_line of scripts/工具集/查重工具.py
tool_translate_line(lib, line) ==
    IF Len(strip(line)) = 0 \/ startswith(strip(line), "#") THEN Result(line, 0, 0, 0, <<>>)
    ELSE IF IsSectionLine(line) THEN tool_translate_section_line(lib, line)
    ELSE IF IsKVLine(line, 0) THEN tool_translate_kv_line(lib, line, TRUE)
    ELSE Result(line, 0, 0, 0, <<>>)

\* ReverseTranslator._translate_line of scripts/工具集/一键查重.py
onekey_translate_line(lib, line) ==
    IF Len(strip(line)) = 0 \/ startswith(strip(line), "#") THEN Result(line, 0, 0, 0, <<>>)
    ELSE IF IsSectionLine(line) THEN tool_translate_section_line(lib, line)
    ELSE IF IsKVLine(line, 0) THEN tool_translate_kv_line(lib, line, FALSE)
    ELSE Result(line, 0, 0, 0, <<>>)

(***************************************************************************)
(* Inputs: glossary lines and files                                        *)
(***************************************************************************)

\* run = X
GL_run == <<"r", "u", "n", " ", "=", " ", "X">>
\* running = Y
GL_running == <<"r", "u", "n", "n", "i", "n", "g", " ", "=", " ", "Y">>
\* X = run
GL_X_run == <<"X", " ", "=", " ", "r", "u", "n">>
\* Y = running
GL_Y_running == <<"Y", " ", "=", " ", "r", "u", "n", "n", "i", "n", "g">>
\* @a = Z
GL_at == <<"@", "a", " ", "=", " ", "Z">>
\* [hid] = [H]
GL_hid == <<"[", "h", "i", "d", "]", " ", "=", " ", "[", "H", "]">>
\* [hid_x] = [H_y]
GL_hid_x == <<"[", "h", "i", "d", "_", "x", "]", " ", "=", " ", "[", "H", "_", "y", "]">>
\* [H_y] = [H_y]
GL_H_y == <<"[", "H", "_", "y", "]", " ", "=", " ", "[", "H", "_", "y", "]">>
\* LAND = L
GL_LAND == <<"L", "A", "N", "D", " ", "=", " ", "L">>
\* WATER = W
GL_WATER == <<"W", "A", "T", "E", "R", " ", "=", " ", "W">>
\* TRUE = T
GL_TRUE == <<"T", "R", "U", "E", " ", "=", " ", "T">>

\* k: running_fast\n
F_running_fast == <<"k", ":", " ", "r", "u", "n", "n", "i", "n", "g", "_", "f", "a", "s", "t", "\n">>
\* k: running fast\n
F_running_sp_fast == <<"k", ":", " ", "r", "u", "n", "n", "i", "n", "g", " ", "f", "a", "s", "t", "\n">>
\* k: b@a\n
F_b_at_a == <<"k", ":", " ", "b", "@", "a", "\n">>
\* [hid_x]\n
F_hid_x == <<"[", "h", "i", "d", "_", "x", "]", "\n">>
\* [hid]\n
F_hid == <<"[", "h", "i", "d", "]", "\n">>
\* [H_x]\n
F_H_x == <<"[", "H", "_", "x", "]", "\n">>
\* [H_y]\n
F_H_y == <<"[", "H", "_", "y", "]", "\n">>
\* m: LAND, WATER\n
F_LAND_WATER == <<"m", ":", " ", "L", "A", "N", "D", ",", " ", "W", "A", "T", "E", "R", "\n">>
\* m: LAND,WATER\n
F_LANDWATER == <<"m", ":", " ", "L", "A", "N", "D", ",", "W", "A", "T", "E", "R", "\n">>
\* m: L,W\n
F_L_W == <<"m", ":", " ", "L", ",", "W", "\n">>
\* k: TRUE\n
F_TRUE == <<"k", ":", " ", "T", "R", "U", "E", "\n">>
\* run: LAND\n
F_run_LAND == <<"r", "u", "n", ":", " ", "L", "A", "N", "D", "\n">>
\* X=L # run\n
F_X_L == <<"X", "=", "L", " ", "#", " ", "r", "u", "n", "\n">>
\* # run\n
F_comment == <<"#", " ", "r", "u", "n", "\n">>
\* run\n
F_text == <<"r", "u", "n", "\n">>
\* [H]\nY: X
F_two == <<"[", "H", "]", "\n", "Y", ":", " ", "X">>

\* k: run # run \n  (a blank follows the comment)
F_run_comment == <<"k", ":", " ", "r", "u", "n", " ", "#", " ", "r", "u", "n", " ", "\n">>

\* an empty line, a blank line, an indented comment, two lines of neither
\* grammar and a key-value line
F_mixed == <<"\n", " ", "\n", " ", "#", " ", "k", ":", " ", "r", "u", "n", "\n",
             "[", "r", "u", "n", "\n", "r", "u", "n", "\n", "k", ":", " ", "r", "u", "n">>

\* run = a b
GL_run_a_b == <<"r", "u", "n", " ", "=", " ", "a", " ", "b">>
\* a = Z
GL_a_Z == <<"a", " ", "=", " ", "Z">>
\* a b = run
GL_a_b_run == <<"a", " ", "b", " ", "=", " ", "r", "u", "n">>
\* Z = a
GL_Z_a == <<"Z", " ", "=", " ", "a">>

\* a key-value line whose value is the one word run
F_k_run == <<"k", ":", "r", "u", "n", "\n">>

\* a key-value line with a key and a separator and nothing behind it
F_run_only == <<"r", "u", "n", ":", "\n">>

\* the glossary lines the generic glossary files of the model are made of
GlossaryLines == {GL_run, GL_running, GL_hid, GL_TRUE}

\* glossary files for the other direction and for the other kinds of term
ExampleGlossaries ==
    {<<GL_X_run, GL_Y_running>>, <<GL_at>>, <<GL_LAND, GL_WATER>>,
     <<GL_hid, GL_hid_x>>, <<GL_hid, GL_H_y>>,
     <<GL_run_a_b, GL_a_Z>>, <<GL_a_b_run, GL_Z_a>>}

\* the contents of the files given to the rewriters
Files == {F_running_fast, F_running_sp_fast, F_b_at_a, F_hid_x, F_hid, F_H_x, F_LAND_WATER, F_LANDWATER, F_L_W, F_TRUE, F_run_LAND, F_X_L, F_comment, F_text, F_two, F_run_comment, F_H_y, F_mixed, F_k_run, F_run_only}

\* longest glossary of the model, in lines
MaxEntries == 2

RECURSIVE SeqsUpTo(_, _)
SeqsUpTo(S, n) ==
    IF n = 0 THEN {<<>>}
    ELSE SeqsUpTo(S, n - 1) \cup {Append(q, x) : q \in {r \in SeqsUpTo(S, n - 1) : Len(r) = n - 1}, x \in S}

\* the glossary files of the model: any generic lines, in any order, and the
\* examples
Glossaries == SeqsUpTo(GlossaryLines, MaxEntries) \cup ExampleGlossaries

(***************************************************************************)
(* Files                                                                   *)
(***************************************************************************)

\* f.readlines(): the lines of content, each with its terminator
RECURSIVE readlines(_)
readlines(content) ==
    IF Len(content) = 0 THEN <<>>
    ELSE IF ~Contains(content, "\n") THEN <<content>>
    ELSE <<SubSeq(content, 1, Find(content, "\n"))>>
             \o readlines(SubSeq(content, Find(content, "\n") + 1, Len(content)))

RECURSIVE sum_field(_, _)
sum_field(results, field) ==
    IF Len(results) = 0 THEN 0
    ELSE Head(results)[field] + sum_field(Tail(results), field)

RECURSIVE concat_logs(_)
concat_logs(results) ==
    IF Len(results) = 0 THEN <<>> ELSE Head(results).log \o concat_logs(Tail(results))

\* the statistics and log entries that the lines of one file add up to
totals(results, out) ==
    Result(out, sum_field(results, "sections"), sum_field(results, "keys"),
           sum_field(results, "lines"), concat_logs(results))

\* INITranslator.translate_file: the loop over readlines() and writelines()
forward_file(lib, content) ==
    LET results == [i \in 1..Len(readlines(content)) |-> translate_line(lib, readlines(content)[i])]
    IN  totals(results, join(<<>>, [i \in 1..Len(results) |-> results[i].out]))

\* ReverseTranslator.translate_file (反向翻译脚本.py): split('\n') ... '\n'.join
reverse_file(lib, content) ==
    LET results == [i \in 1..Len(split(content, "\n")) |->
                       reverse_translate_line(lib, split(content, "\n")[i])]
    IN  totals(results, join(<<"\n">>, [i \in 1..Len(results) |-> results[i].out]))

\* ReverseTranslator.translate_file (查重工具.py)
tool_file(lib, content) ==
    LET results == [i \in 1..Len(split(content, "\n")) |->
                       tool_translate_line(lib, split(content, "\n")[i])]
    IN  totals(results, join(<<"\n">>, [i \in 1..Len(results) |-> results[i].out]))

\* ReverseTranslator.translate_file (一键查重.py)
onekey_file(lib, content) ==
    LET results == [i \in 1..Len(split(content, "\n")) |->
                       onekey_translate_line(lib, split(content, "\n")[i])]
    IN  totals(results, join(<<"\n">>, [i \in 1..Len(results) |-> results[i].out]))

(***************************************************************************)
(* The duplicate check of the glossary                                     *)
(***************************************************************************)

\* section_pattern.match(line) for r'^\s*\[([^\]]+)\]\s*=\s*\[([^\]]+)\]'
IsCheckSection(line) ==
    LET s == FirstNonSpace(line) IN
    /\ s <= Len(line) /\ line[s] = "["
    /\ Find(SubSeq(line, s + 1, Len(line)), "]") >= 2
    /\ LET c == s + Find(SubSeq(line, s + 1, Len(line)), "]")
           e == SkipSpace(line, c + 1)
       IN  /\ e <= Len(line) /\ line[e] = "="
           /\ LET b == SkipSpace(line, e + 1) IN
              /\ b <= Len(line) /\ line[b] = "["
              /\ Find(SubSeq(line, b + 1, Len(line)), "]") >= 2

\* groups 1 and 2 of section_pattern
CheckSectionGroups(line) ==
    LET s == FirstNonSpace(line)
        c == s + Find(SubSeq(line, s + 1, Len(line)), "]")
        b == SkipSpace(line, SkipSpace(line, c + 1) + 1)
    IN  <<SubSeq(line, s + 1, c - 1),
          SubSeq(line, b + 1, b + Find(SubSeq(line, b + 1, Len(line)), "]") - 1)>>

\* key_pattern.match(line) for r'^\s*([^#\s\[][^=]*)\s*='
IsCheckKey(line) ==
    LET s == FirstNonSpace(line) IN
    /\ s <= Len(line) /\ line[s] \notin {"#", "["}
    /\ Contains(SubSeq(line, s + 1, Len(line)), "=")

\* group 1 of key_pattern: from the first non-blank character up to the next "="
CheckKeyGroup(line) ==
    LET s == FirstNonSpace(line)
    IN  SubSeq(line, s, s + Find(SubSeq(line, s + 1, Len(line)), "=") - 1)

\* key_entries and value_to_keys before the first line
NoEntries == [key_entries |-> <<>>, value_to_keys |-> <<>>]

\* defaultdict(list): d[k].append(x)
dict_append(d, k, x) == dict_set(d, k, Append(dict_get(d, k, <<>>), x))

\* check_duplicates, the body of the loop for the line numbered line_num
check_line(acc, raw, line_num) ==
    LET line == rstrip(raw) IN
    IF Len(line) = 0 \/ startswith(strip(line), "#") THEN acc
    ELSE IF IsCheckSection(line)
    THEN LET key   == strip(CheckSectionGroups(line)[1])
             value == strip(CheckSectionGroups(line)[2])
         IN  [key_entries   |-> dict_append(acc.key_entries, key, <<line_num, "Section">>),
              value_to_keys |-> dict_append(acc.value_to_keys, value,
                                            <<key, line_num, "Section">>)]
    ELSE IF IsCheckKey(line)
    THEN LET key        == strip(CheckKeyGroup(line))
             value_part == strip(split_once(line, "=")[2])
         IN  IF Len(key) > 0 /\ ~startswith(key, "#")
             THEN [key_entries   |-> dict_append(acc.key_entries, key, <<line_num, "Key">>),
                   value_to_keys |-> dict_append(acc.value_to_keys, value_part,
                                                 <<key, line_num, "Key">>)]
             ELSE acc
    ELSE acc

\* check_duplicates, the loop over enumerate(lines, 1)
RECURSIVE check_lines(_, _, _)
check_lines(acc, lines, line_num) ==
    IF line_num > Len(lines) THEN acc
    ELSE check_lines(check_line(acc, lines[line_num], line_num), lines, line_num + 1)

\* set(e[field] for e in entries)
types_of(entries, field) == {entries[i][field] : i \in 1..Len(entries)}

\* the exemption applied to any term that has entries of both types
RECURSIVE duplicate_keys_any_pair(_, _)
duplicate_keys_any_pair(key_entries, ignore_section_key_duplicate) ==
    IF Len(key_entries) = 0 THEN <<>>
    ELSE LET key     == Head(key_entries)[1]
             entries == Head(key_entries)[2]
             rest    == duplicate_keys_any_pair(Tail(key_entries), ignore_section_key_duplicate)
         IN  IF Len(entries) > 1
                /\ ~(/\ ignore_section_key_duplicate
                     /\ Cardinality(types_of(entries, 2)) = 2)
             THEN <<<<key, [i \in 1..Len(entries) |-> entries[i][1]]>>>> \o rest
             ELSE rest

\* check_duplicates, the loop that fills duplicate_keys
RECURSIVE duplicate_keys(_, _)
duplicate_keys(key_entries, ignore_section_key_duplicate) ==
    IF Len(key_entries) = 0 THEN <<>>
    ELSE LET key     == Head(key_entries)[1]
             entries == Head(key_entries)[2]
             rest    == duplicate_keys(Tail(key_entries), ignore_section_key_duplicate)
         IN  IF Len(entries) > 1
                /\ ~(/\ ignore_section_key_duplicate
                     /\ Cardinality(types_of(entries, 2)) = 2
                     /\ Len(entries) = 2)
             THEN <<<<key, [i \in 1..Len(entries) |-> entries[i][1]]>>>> \o rest
             ELSE rest

\* the exemption applied whatever the mode
RECURSIVE duplicate_values_always_exempt(_, _)
duplicate_values_always_exempt(value_to_keys, ignore_section_key_duplicate) ==
    IF Len(value_to_keys) = 0 THEN <<>>
    ELSE LET value   == Head(value_to_keys)[1]
             entries == Head(value_to_keys)[2]
             rest    == duplicate_values_always_exempt(Tail(value_to_keys),
                                                       ignore_section_key_duplicate)
         IN  IF Len(entries) > 1
                /\ ~(Len(entries) = 2 /\ Cardinality(types_of(entries, 3)) = 2)
             THEN <<<<value, entries>>>> \o rest
             ELSE rest

\* check_duplicates, the loop that fills duplicate_values
RECURSIVE duplicate_values(_, _)
duplicate_values(value_to_keys, ignore_section_key_duplicate) ==
    IF Len(value_to_keys) = 0 THEN <<>>
    ELSE LET value   == Head(value_to_keys)[1]
             entries == Head(value_to_keys)[2]
             rest    == duplicate_values(Tail(value_to_keys), ignore_section_key_duplicate)
         IN  IF Len(entries) > 1
                /\ ~(/\ ignore_section_key_duplicate
                     /\ Len(entries) = 2
                     /\ Cardinality(types_of(entries, 3)) = 2)
             THEN <<<<value, entries>>>> \o rest
             ELSE rest

\* what check_duplicates returns
Report(keys, values, total) ==
    [duplicate_keys |-> keys, duplicate_values |-> values, total_keys |-> total]

\* check_duplicates(file_path, ignore_section_key_duplicate) for a file that
\* was read
check_duplicates(lines, ignore_section_key_duplicate) ==
    LET acc == check_lines(NoEntries, lines, 1)
    IN  Report(duplicate_keys(acc.key_entries, ignore_section_key_duplicate),
               duplicate_values(acc.value_to_keys, ignore_section_key_duplicate),
               Len(acc.key_entries))

(***************************************************************************)
(* The programs                                                            *)
(***************************************************************************)

VARIABLES
    glossary,   \* the glossary file: [status, lines]
    prog,       \* the script that is running: "none", "forward", "reverse", "tool", "onekey"
    phase,      \* "idle", "loaded" (library built), "done" (file handled), "crashed"
    lib,        \* the library the running script built
    stats,      \* the translator's statistics
    log,        \* the TranslationLog of the running script
    warned,     \* the loader printed its warning
    history,    \* the files handled so far: [tool, input, output, outcome]
    report,     \* what the duplicate check returned: [tool, strict, result], and
                \* the lines of the file it examined
    files,      \* the files a directory run selects, in lexicographic order of
                \* their relative path: [content, fault]
    handled     \* the places in files of the files handed to translate_file,
                \* in the order of the calls

vars == <<glossary, prog, phase, lib, stats, log, warned, history, report, files, handled>>

\* TranslationStats() / INITranslator.stats
ZeroStats ==
    [files_processed |-> 0, files_skipped |-> 0, lines_translated |-> 0,
     keys_translated |-> 0, sections_translated |-> 0]

\* the text of a file that was not written
NoFile == <<"<none>">>

\* no duplicate check has returned
NoReport == [tool |-> "none", strict |-> FALSE, result |-> Report(<<>>, <<>>, 0),
             examined |-> <<>>]

Init ==
    /\ glossary \in [status : {"ok"}, lines : Glossaries]
                    \cup [status : {"missing", "unreadable"}, lines : {<<>>}]
    /\ prog = "none"
    /\ phase = "idle"
    /\ lib = EmptyLibrary
    /\ stats = ZeroStats
    /\ log = <<>>
    /\ warned = FALSE
    /\ history = <<>>
    /\ report = NoReport
    /\ files = <<>>
    /\ handled = <<>>

\* A script is started when none is running, on the result of the previous
\* one if there is one.
CanStart ==
    /\ phase \in {"idle", "done"}
    /\ history = <<>> \/ (Len(history) = 1 /\ history[1].outcome = "ok")

\* the file the running script is given
Inputs == IF history = <<>> THEN Files ELSE {history[Len(history)].output}

\* TranslationLibrary.__init__ and INITranslator.__init__ (翻译脚本.py main)
StartForward ==
    /\ CanStart
    /\ prog' = "forward"
    /\ stats' = ZeroStats
    /\ log' = <<>>
    /\ IF glossary.status = "missing"
       THEN /\ lib' = compile_patterns(EmptyLibrary)
            /\ warned' = TRUE
            /\ phase' = "loaded"
       ELSE IF glossary.status = "unreadable"
       THEN \* open() is not guarded: the exception leaves the constructor
            /\ lib' = EmptyLibrary
            /\ warned' = FALSE
            /\ phase' = "crashed"
       ELSE /\ lib' = compile_patterns(load_lines(EmptyLibrary, glossary.lines))
            /\ warned' = FALSE
            /\ phase' = "loaded"
    /\ UNCHANGED <<files, handled, report, glossary, history>>

\* ReverseTranslationLibrary.__init__: _load_library and _compile_patterns
reverse_library(g) ==
    IF g.status = "ok"
    THEN compile_patterns(reverse_load_lines(EmptyLibrary, g.lines))
    ELSE compile_patterns(EmptyLibrary)

\* ReverseTranslationLibrary and ReverseTranslator (反向翻译脚本.py main)
StartReverse ==
    /\ CanStart
    /\ prog' = "reverse"
    /\ stats' = ZeroStats
    /\ log' = <<>>
    /\ lib' = reverse_library(glossary)
    /\ warned' = (glossary.status # "ok")
    /\ phase' = "loaded"
    /\ UNCHANGED <<files, handled, report, glossary, history>>

\* ReverseTranslationLibrary and ReverseTranslator (查重工具.py main)
StartTool ==
    /\ CanStart
    /\ prog' = "tool"
    /\ stats' = ZeroStats
    /\ log' = <<>>
    /\ lib' = reverse_library(glossary)
    /\ warned' = (glossary.status # "ok")
    /\ phase' = "loaded"
    /\ UNCHANGED <<files, handled, report, glossary, history>>

\* ReverseTranslationLibrary and ReverseTranslator (一键查重.py check_project)
StartOneKey ==
    /\ CanStart
    /\ prog' = "onekey"
    /\ stats' = ZeroStats
    /\ log' = <<>>
    /\ lib' = reverse_library(glossary)
    /\ warned' = (glossary.status # "ok")
    /\ phase' = "loaded"
    /\ UNCHANGED <<files, handled, report, glossary, history>>

Handled(tool, input, output, outcome) ==
    [tool |-> tool, input |-> input, output |-> output, outcome |-> outcome]

\* INITranslator.translate_file: the line counters are added to self.stats
\* while the lines are translated, before the file is written
ForwardTranslateFile ==
    /\ prog = "forward" /\ phase = "loaded"
    /\ \E input \in Inputs :
         LET r == forward_file(lib, input) IN
         \E outcome \in {"ok", "read_failed", "write_failed"} :
         /\ stats' =
              IF outcome = "read_failed"
              THEN [stats EXCEPT !.files_skipped = @ + 1]
              ELSE [stats EXCEPT
                      !.sections_translated = @ + r.sections,
                      !.keys_translated = @ + r.keys,
                      !.lines_translated = @ + r.lines,
                      !.files_skipped = @ + (IF outcome = "write_failed" THEN 1 ELSE 0),
                      !.files_processed = @ + (IF outcome = "ok" THEN 1 ELSE 0)]
         /\ history' = Append(history,
              Handled("forward", input, IF outcome = "ok" THEN r.out ELSE NoFile, outcome))
    /\ phase' = "done"
    /\ UNCHANGED <<files, handled, report, glossary, prog, lib, log, warned>>

\* ReverseTranslator.translate_file: the line counters go to file_stats, which
\* is merged after the file is written; the log is appended to line by line
ReverseFileStep(tool, input, r) ==
         \E outcome \in {"ok", "read_failed", "write_failed"} :
         /\ stats' =
              IF outcome = "ok"
              THEN [stats EXCEPT
                      !.sections_translated = @ + r.sections,
                      !.keys_translated = @ + r.keys,
                      !.lines_translated = @ + r.lines,
                      !.files_processed = @ + 1]
              ELSE [stats EXCEPT !.files_skipped = @ + 1]
         /\ log' = IF outcome = "read_failed" THEN log ELSE log \o r.log
         /\ history' = Append(history,
              Handled(tool, input, IF outcome = "ok" THEN r.out ELSE NoFile, outcome))

ReverseTranslateFile ==
    /\ prog = "reverse" /\ phase = "loaded"
    /\ \E input \in Inputs : ReverseFileStep("reverse", input, reverse_file(lib, input))
    /\ phase' = "done"
    /\ UNCHANGED <<files, handled, report, glossary, prog, lib, warned>>

ToolTranslateFile ==
    /\ prog = "tool" /\ phase = "loaded"
    /\ \E input \in Inputs : ReverseFileStep("tool", input, tool_file(lib, input))
    /\ phase' = "done"
    /\ UNCHANGED <<files, handled, report, glossary, prog, lib, warned>>

OneKeyTranslateFile ==
    /\ prog = "onekey" /\ phase = "loaded"
    /\ \E input \in Inputs : ReverseFileStep("onekey", input, onekey_file(lib, input))
    /\ phase' = "done"
    /\ UNCHANGED <<files, handled, report, glossary, prog, lib, warned>>

Next ==
    \/ StartForward
    \/ StartReverse
    \/ StartTool
    \/ StartOneKey
    \/ ForwardTranslateFile
    \/ ReverseTranslateFile
    \/ ToolTranslateFile
    \/ OneKeyTranslateFile

Spec == Init /\ [][Next]_vars

(***************************************************************************)
(* The duplicate checkers                                                  *)
(***************************************************************************)

\* an entry of a glossary file, as its author writes it
Entry(type, source, target) == [type |-> type, source |-> source, target |-> target]

\* the line of the glossary file that holds an entry
render(e) ==
    IF e.type = "Section"
    THEN <<"[">> \o e.source \o <<"]", " ", "=", " ", "[">> \o e.target \o <<"]">>
    ELSE IF e.type = "Key"
    THEN e.source \o <<" ", "=", " ">> \o e.target
    ELSE IF e.type = "Comment"
    THEN <<"#", " ">> \o e.source \o <<" ", "=", " ">> \o e.target
    ELSE IF e.type = "Text"
    THEN e.source \o <<" ">> \o e.target
    ELSE <<" ", " ">>

\* the entries the glossary files given to the checkers are made of
CheckEntries ==
    {Entry("Key", <<"f">>, <<"a">>), Entry("Key", <<"f">>, <<"b">>),
     Entry("Section", <<"f">>, <<"a">>), Entry("Key", <<"g">>, <<"a">>),
     Entry("Section", <<"g">>, <<"c">>), Entry("Comment", <<"f">>, <<"a">>)}

\* longest glossary given to the checkers, in lines
MaxCheckEntries == 3

CheckGlossaries == SeqsUpTo({render(e) : e \in CheckEntries}, MaxCheckEntries)

InitCheck ==
    /\ glossary \in [status : {"ok"}, lines : CheckGlossaries]
                    \cup [status : {"missing", "unreadable"}, lines : {<<>>}]
    /\ prog = "none"
    /\ phase = "idle"
    /\ lib = EmptyLibrary
    /\ stats = ZeroStats
    /\ log = <<>>
    /\ warned = FALSE
    /\ history = <<>>
    /\ report = NoReport
    /\ files = <<>>
    /\ handled = <<>>

\* 查重翻译库.py main: check_duplicates(file_path, not args.strict); open() is
\* not guarded inside check_duplicates
CheckDuplicates ==
    /\ phase = "idle"
    /\ prog' = "check"
    /\ \E strict \in BOOLEAN :
         IF glossary.status = "ok"
         THEN /\ report' = [tool |-> "check", strict |-> strict,
                            result |-> check_duplicates(glossary.lines, ~strict),
                            examined |-> glossary.lines]
              /\ phase' = "done"
         ELSE /\ report' = report
              /\ phase' = "crashed"
    /\ UNCHANGED <<files, handled, glossary, lib, stats, log, warned, history>>

\* 一键查重.py: TranslationLibraryChecker(lib_path).check_duplicates(ignore);
\* lib_path stays None only when no path is given and no candidate exists
OneKeyCheckDuplicates ==
    /\ phase = "idle"
    /\ prog' = "onekey_check"
    /\ \E strict \in BOOLEAN, given \in BOOLEAN :
         IF glossary.status = "ok"
         THEN /\ report' = [tool |-> "onekey_check", strict |-> strict,
                            result |-> check_duplicates(glossary.lines, ~strict),
                            examined |-> glossary.lines]
              /\ warned' = FALSE
              /\ phase' = "done"
         ELSE IF glossary.status = "missing" /\ ~given
         THEN /\ report' = [tool |-> "onekey_check", strict |-> strict,
                            result |-> Report(<<>>, <<>>, 0), examined |-> <<>>]
              /\ warned' = TRUE
              /\ phase' = "done"
         ELSE /\ report' = report
              /\ warned' = FALSE
              /\ phase' = "crashed"
    /\ UNCHANGED <<files, handled, glossary, lib, stats, log, history>>

NextCheck ==
    \/ CheckDuplicates
    \/ OneKeyCheckDuplicates

SpecCheck == InitCheck /\ [][NextCheck]_vars

(***************************************************************************)
(* Directory runs                                                          *)
(***************************************************************************)

\* what the file system refuses for one file of a directory run: reading it,
\* creating the directory of its output, or writing its output
Faults == {"none", "read", "mkdir", "write"}

\* longest directory of the model, in files
MaxFiles == 2

\* the texts of the files of the directories
DirContents == {F_hid_x, F_two}

Directories == SeqsUpTo([content : DirContents, fault : Faults], MaxFiles)

\* glossary files of the directory runs: without conflict, with a duplicated
\* source, with a duplicated target
DirGlossaries == {<<GL_X_run, GL_hid>>, <<GL_hid, GL_hid>>, <<GL_X_run, GL_Y_running, GL_hid>>,
                  <<render(Entry("Key", <<"f">>, <<"a">>)), render(Entry("Key", <<"g">>, <<"a">>))>>}

InitDir ==
    /\ glossary \in [status : {"ok"}, lines : DirGlossaries]
                    \cup [status : {"missing", "unreadable"}, lines : {<<>>}]
    /\ prog = "none"
    /\ phase = "idle"
    /\ lib = EmptyLibrary
    /\ stats = ZeroStats
    /\ log = <<>>
    /\ warned = FALSE
    /\ history = <<>>
    /\ report = NoReport
    /\ files \in Directories
    /\ handled = <<>>

\* a library whose lookups insert the term that was looked up
lib_with_lookups_inserted(l, content) ==
    [l EXCEPT !.translations = dict_set(@, content, content)]

\* the library after the lines of a file were translated with it: the
\* dictionaries are read with get() and `in`, the patterns with sub(), and
\* nothing is assigned to them
lib_after_file(l, content) == l

\* how translate_file ends for a file
outcome_of(fault) ==
    IF fault = "none" THEN "ok"
    ELSE IF fault = "read" THEN "read_failed"
    ELSE IF fault = "mkdir" THEN "mkdir_failed"
    ELSE "write_failed"

\* the places of the files that were not handed to translate_file yet
unhandled == {i \in 1..Len(files) : \A k \in 1..Len(handled) : handled[k] # i}

\* the place of the file that the loop over sorted(valid_files) reaches next
next_place == CHOOSE i \in unhandled : \A j \in unhandled : i <= j

\* the file translate_directory hands to translate_file next
next_file == files[next_place]

\* INITranslator.translate_file called from the loop of translate_directory:
\* the read and the write are inside try blocks, os.makedirs is not, and
\* nothing around the call catches what it raises
\* valid_files is what rglob yields for each element of the set
\* valid_extensions and is not sorted: its order is that of the directory
\* listing and of the iteration of a set of strings
DirForwardFile ==
    /\ prog = "forward" /\ phase = "loaded" /\ Len(history) < Len(files)
    /\ \E place \in unhandled :
       LET f == files[place]
           r == forward_file(lib, f.content)
       IN  /\ handled' = Append(handled, place)
           /\ stats' =
                IF f.fault = "read"
                THEN [stats EXCEPT !.files_skipped = @ + 1]
                ELSE [stats EXCEPT
                        !.sections_translated = @ + r.sections,
                        !.keys_translated = @ + r.keys,
                        !.lines_translated = @ + r.lines,
                        !.files_skipped = @ + (IF f.fault = "write" THEN 1 ELSE 0),
                        !.files_processed = @ + (IF f.fault = "none" THEN 1 ELSE 0)]
           /\ history' = Append(history,
                Handled("forward", f.content, IF f.fault = "none" THEN r.out ELSE NoFile,
                        outcome_of(f.fault)))
           /\ phase' = IF f.fault = "mkdir" THEN "crashed" ELSE "loaded"
           /\ lib' = IF f.fault = "read" THEN lib ELSE lib_after_file(lib, f.content)
    /\ UNCHANGED <<files, report, glossary, prog, log, warned>>

\* ReverseTranslator.translate_file called from the loop of
\* translate_directory: output_path.parent.mkdir is outside the try blocks
DirFileStep(tool, f, r) ==
    /\ stats' =
         IF f.fault = "none"
         THEN [stats EXCEPT
                 !.sections_translated = @ + r.sections,
                 !.keys_translated = @ + r.keys,
                 !.lines_translated = @ + r.lines,
                 !.files_processed = @ + 1]
         ELSE IF f.fault = "mkdir" THEN stats
         ELSE [stats EXCEPT !.files_skipped = @ + 1]
    /\ log' = IF f.fault = "read" THEN log ELSE log \o r.log
    /\ history' = Append(history,
         Handled(tool, f.content, IF f.fault = "none" THEN r.out ELSE NoFile,
                 outcome_of(f.fault)))
    /\ phase' = IF f.fault = "mkdir" THEN "crashed" ELSE "loaded"
    /\ lib' = IF f.fault = "read" THEN lib ELSE lib_after_file(lib, f.content)
    /\ handled' = Append(handled, next_place)

DirReverseFile ==
    /\ prog = "reverse" /\ phase = "loaded" /\ Len(history) < Len(files)
    /\ DirFileStep("reverse", next_file, reverse_file(lib, next_file.content))
    /\ UNCHANGED <<files, report, glossary, prog, warned>>

DirToolFile ==
    /\ prog = "tool" /\ phase = "loaded" /\ Len(history) < Len(files)
    /\ DirFileStep("tool", next_file, tool_file(lib, next_file.content))
    /\ UNCHANGED <<files, report, glossary, prog, warned>>

DirOneKeyFile ==
    /\ prog \in {"onekey", "run_all"} /\ phase = "loaded" /\ Len(history) < Len(files)
    /\ DirFileStep("onekey", next_file, onekey_file(lib, next_file.content))
    /\ UNCHANGED <<files, report, glossary, prog, warned>>

\* translate_directory returns: no file was selected, or the loop is over
DirReturn ==
    /\ prog \in {"forward", "reverse", "tool", "onekey", "run_all"}
    /\ phase = "loaded" /\ Len(history) = Len(files)
    /\ phase' = "finished"
    /\ UNCHANGED <<files, handled, report, glossary, prog, lib, stats, log, warned, history>>

\* the lib_path argument of run_all: the default, which is the first of the
\* candidate paths, or the path of another file
DefaultPath == "scripts/glossary"
OtherPath == "other/glossary"

\* the lines of the file at the other path
OtherLibrary == <<GL_X_run>>

\* TranslationLibraryChecker._find_library_path: the file at lib_path when
\* there is one, else the file at the first candidate path that exists
\* (glossary is the file at the candidate path)
checker_file(lib_path) ==
    IF lib_path = DefaultPath THEN glossary ELSE [status |-> "ok", lines |-> OtherLibrary]

\* ReverseTranslationLibrary() in check_project: no path is passed, so
\* _find_library_path goes through the candidate paths
project_file == glossary

\* UnifiedChecker.run_all, first call: check_library(lib_path, strict).  The
\* path is always given (it has a default), the report goes to the log's
\* lib_duplicate_keys and lib_duplicate_values
RunAllCheckLibrary ==
    /\ phase = "idle"
    /\ prog' = "run_all"
    /\ \E strict \in BOOLEAN, lib_path \in {DefaultPath, OtherPath} :
         IF checker_file(lib_path).status = "ok"
         THEN /\ report' = [tool |-> "run_all", strict |-> strict,
                            result |-> check_duplicates(checker_file(lib_path).lines, ~strict),
                            examined |-> checker_file(lib_path).lines]
              /\ phase' = "checked"
         ELSE /\ report' = report
              /\ phase' = "crashed"
    /\ UNCHANGED <<files, handled, glossary, lib, stats, log, warned, history>>

\* UnifiedChecker.run_all, second call: check_project builds the library and
\* the translator, and starts translate_directory
RunAllCheckProject ==
    /\ prog = "run_all" /\ phase = "checked"
    /\ lib' = reverse_library(project_file)
    /\ warned' = (project_file.status # "ok")
    /\ stats' = ZeroStats
    /\ phase' = "loaded"
    /\ UNCHANGED <<files, handled, report, glossary, prog, log, history>>

NextDir ==
    \/ StartForward
    \/ StartReverse
    \/ StartTool
    \/ StartOneKey
    \/ DirForwardFile
    \/ DirReverseFile
    \/ DirToolFile
    \/ DirOneKeyFile
    \/ DirReturn
    \/ RunAllCheckLibrary
    \/ RunAllCheckProject

SpecDir == InitDir /\ [][NextDir]_vars

(***************************************************************************)
(* Loading a glossary                                                      *)
(***************************************************************************)

\* the entries and other lines the glossary files given to the loaders are
\* made of: section and flat entries, reserved and lower-case spellings, a
\* chain, a self-mapped term, entries with one side left empty, a blank line,
\* a comment and a line without "="
LoadEntries ==
    {Entry("Section", <<"h", "i", "d">>, <<"H">>),
     Entry("Section", <<"r", "u", "n">>, <<"X">>),
     Entry("Key", <<"r", "u", "n">>, <<"X">>),
     Entry("Key", <<"X">>, <<"Z">>),
     Entry("Key", <<"r", "u", "n">>, <<"r", "u", "n">>),
     Entry("Key", S_LAND, <<"L">>),
     Entry("Key", <<"l", "a", "n", "d">>, <<"l">>),
     Entry("Key", S_OVER_CLIFF_WATER, <<"w">>),
     Entry("Key", <<>>, <<"x">>),
     Entry("Key", <<"x">>, <<>>),
     Entry("Key", <<"[", "h", "]">>, <<"[", "H", "]", " ", "#">>),
     Entry("Comment", <<"r", "u", "n">>, <<"X">>),
     Entry("Text", <<"r", "u", "n">>, <<"X">>),
     Entry("Blank", <<>>, <<>>)}

\* longest glossary given to the loaders, in lines
MaxLoadEntries == 3

LoadGlossaries == SeqsUpTo({render(e) : e \in LoadEntries}, MaxLoadEntries)

InitLoad ==
    /\ glossary \in [status : {"ok"}, lines : LoadGlossaries]
                    \cup [status : {"missing", "unreadable"}, lines : {<<>>}]
    /\ prog = "none"
    /\ phase = "idle"
    /\ lib = EmptyLibrary
    /\ stats = ZeroStats
    /\ log = <<>>
    /\ warned = FALSE
    /\ history = <<>>
    /\ report = NoReport
    /\ files = <<>>
    /\ handled = <<>>

NextLoad ==
    \/ StartForward
    \/ StartReverse
    \/ StartTool
    \/ StartOneKey

SpecLoad == InitLoad /\ [][NextLoad]_vars

(***************************************************************************)
(* Properties of the rewriters                                             *)
(***************************************************************************)

\* the file the running script has handled
Last == history[Len(history)]

\* the running script, with the library lib, has written the translation of
\* the file Last.input
Wrote == phase = "done" /\ history # <<>> /\ Last.outcome = "ok"

\* the section name, the key and the value of a one-line file
section_token(content) == strip(SectionGroups(rstrip(content)).name)
key_token(content) == strip(KVGroups(content, 0).key)
value_token(content) == strip(KVGroups(content, 0).value)

\* the key map of the running script holds run -> X and running -> Y
LongestMatchCase ==
    /\ Wrote
    /\ dict_get(lib.translations, <<"r", "u", "n">>, <<>>) = <<"X">>
    /\ dict_get(lib.translations, <<"r", "u", "n", "n", "i", "n", "g">>, <<>>) = <<"Y">>

\* C1 (as amended): with key-role entries run -> X and running -> Y, every
\* rewriter translates the value `running fast` to `Y fast` (the longer term
\* is substituted, the shorter one is not applied inside it and nothing is
\* substituted a second time), and leaves the value `running_fast` as it is,
\* the underscore being an identifier character.
C1_LongestMatch ==
    LongestMatchCase =>
        /\ Last.input = F_running_sp_fast => value_token(Last.output) = <<"Y", " ", "f", "a", "s", "t">>
        /\ Last.input = F_running_fast => value_token(Last.output) = <<"r", "u", "n", "n", "i", "n", "g", "_", "f", "a", "s", "t">>

C1_Witness ==
    /\ LongestMatchCase
    /\ Last.input = F_running_sp_fast
    /\ value_token(Last.output) = <<"Y", " ", "f", "a", "s", "t">>

\* C1 (as stated): with key-role entries run -> X and running -> Y, translating
\* the value `running_fast` yields `Y_fast`.
C1_Original ==
    (LongestMatchCase /\ Last.input = F_running_fast)
        => value_token(Last.output) = <<"Y", "_", "f", "a", "s", "t">>

\* C2: free-text substitution replaces an occurrence of a key-map term only
\* when the occurrence is not adjacent to another identifier character: with
\* the term `@a` in the key map, the value `b@a`, where the occurrence follows
\* the identifier character b, is left as it is.
C2_WordBoundaryIsolation ==
    (Wrote /\ dict_has(lib.translations, <<"@", "a">>) /\ Last.input = F_b_at_a)
        => value_token(Last.output) = <<"b", "@", "a">>

\* C3: in every rewriter, a section header whose full name is not in the
\* section map but whose part before the first underscore is, is written as
\* [translatedPrefix_suffix] with the suffix unchanged.
C3_SectionPrefixFallback ==
    \A header \in {F_hid_x, F_H_x} :
        LET name == section_token(header)
            parts == split_once(name, "_")
        IN  (/\ Wrote
             /\ Last.input = header
             /\ ~dict_has(lib.section_translations, name)
             /\ dict_has(lib.section_translations, parts[1]))
                => section_token(Last.output)
                     = dict_at(lib.section_translations, parts[1]) \o <<"_">> \o parts[2]

\* the value map of the running script holds the two literals of list
ListCase(first, second) ==
    /\ Wrote
    /\ dict_has(lib.value_translations, first)
    /\ dict_has(lib.value_translations, second)

\* C4: in each direction a value containing commas is split on the commas,
\* each element is trimmed and translated by itself, literal map first, and
\* the results are joined with `, `: with literal entries for both elements,
\* `LAND, WATER` and `LAND,WATER` are written as `B(LAND), B(WATER)`.
C4_CommaList ==
    /\ (ListCase(S_LAND, S_WATER) /\ Last.input \in {F_LAND_WATER, F_LANDWATER})
          => value_token(Last.output)
               = dict_at(lib.value_translations, S_LAND) \o <<",", " ">>
                   \o dict_at(lib.value_translations, S_WATER)
    /\ (ListCase(<<"L">>, <<"W">>) /\ Last.input = F_L_W)
          => value_token(Last.output)
               = dict_at(lib.value_translations, <<"L">>) \o <<",", " ">>
                   \o dict_at(lib.value_translations, <<"W">>)

\* TranslationLibrary(lib_path) of 翻译脚本.py for the glossary file g
forward_library(g) == load_lines(EmptyLibrary, g.lines)

\* the entries of the three maps of a library
entries_of(l) == l.section_translations \o l.translations \o l.value_translations

\* no target is shared by two entries
NoSharedTarget(l) ==
    \A i, j \in 1..Len(entries_of(l)) :
        i # j => entries_of(l)[i][2] # entries_of(l)[j][2]

\* the forward rewriter has translated a file and a reverse rewriter, with
\* the same glossary file, has translated the result
RoundTrip ==
    /\ phase = "done" /\ Len(history) = 2
    /\ history[1].tool = "forward"
    /\ history[2].tool # "forward" /\ history[2].outcome = "ok"
    /\ glossary.status = "ok"
    /\ NoSharedTarget(forward_library(glossary))

\* C5: for a glossary in which no target is shared by two entries, and a file
\* that is one source term in the position of its role (the whole value of a
\* key-value line, a section header name, the key of a key-value line), the
\* reverse translation of the forward translation holds that term again.
C5_RoundTrip ==
    RoundTrip =>
        /\ (/\ history[1].input \in {F_TRUE, F_run_LAND}
            /\ dict_has(forward_library(glossary).value_translations,
                        value_token(history[1].input)))
              => value_token(history[2].output) = value_token(history[1].input)
        /\ (/\ history[1].input \in {F_hid, F_hid_x}
            /\ dict_has(forward_library(glossary).section_translations,
                        section_token(history[1].input)))
              => section_token(history[2].output) = section_token(history[1].input)
        /\ (/\ history[1].input \in {F_TRUE, F_run_LAND}
            /\ dict_has(forward_library(glossary).translations,
                        key_token(history[1].input)))
              => key_token(history[2].output) = key_token(history[1].input)

\* C6: translating a line in one direction never changes a literal value
\* token, a section name or a key that is not a source term of that
\* direction's dictionary.
C6_NoSpuriousSubstitution ==
    Wrote =>
        /\ (/\ Last.input \in {F_TRUE, F_run_LAND}
            /\ ~dict_has(lib.value_translations, value_token(Last.input))
            /\ ~dict_has(lib.translations, value_token(Last.input)))
              => value_token(Last.output) = value_token(Last.input)
        /\ (/\ Last.input \in {F_hid, F_hid_x, F_H_x}
            /\ ~dict_has(lib.section_translations, section_token(Last.input))
            /\ ~dict_has(lib.section_translations,
                         split_once(section_token(Last.input), "_")[1]))
              => section_token(Last.output) = section_token(Last.input)
        /\ (/\ Last.input \in {F_TRUE, F_run_LAND, F_X_L}
            /\ ~dict_has(lib.translations, key_token(Last.input)))
              => key_token(Last.output) = key_token(Last.input)

(***************************************************************************)
(* Properties of the duplicate checkers                                    *)
(***************************************************************************)

\* a checker has read the glossary file and returned its report
Checked == report.tool # "none" /\ glossary.status = "ok"

\* the entry that a line of the glossary file holds
entry_of(line) == CHOOSE e \in CheckEntries : render(e) = line

\* the numbers of the lines whose entry has one of the types and holds term
\* in the field
occurrences(types, field, term) ==
    {i \in 1..Len(glossary.lines) :
        /\ entry_of(glossary.lines[i]).type \in types
        /\ entry_of(glossary.lines[i])[field] = term}

RECURSIVE ascending(_)
ascending(S) ==
    IF S = {} THEN <<>>
    ELSE LET m == CHOOSE x \in S : \A y \in S : x <= y
         IN  <<m>> \o ascending(S \ {m})

\* the terms of the entries
CheckTerms == {<<"f">>, <<"g">>, <<"a">>, <<"b">>, <<"c">>}

\* C7: a source term that occurs in two or more Key entries yields exactly
\* one duplicate-source entry, which lists the line numbers of all its
\* occurrences; with ignore_section_key_duplicate true, a term that occurs
\* exactly once as a Section entry and exactly once as a Key entry yields none.
C7_DuplicateSources ==
    Checked =>
        \A term \in CheckTerms :
            LET dk  == report.result.duplicate_keys
                key == occurrences({"Key"}, "source", term)
                sec == occurrences({"Section"}, "source", term)
            IN  /\ Cardinality(key) >= 2 =>
                      /\ Cardinality({i \in 1..Len(dk) : dk[i][1] = term}) = 1
                      /\ dict_at(dk, term) = ascending(key \cup sec)
                /\ (~report.strict /\ Cardinality(key) = 1 /\ Cardinality(sec) = 1)
                      => ~dict_has(dk, term)

C7_Witness ==
    /\ Checked /\ ~report.strict
    /\ glossary.lines = <<render(Entry("Section", <<"f">>, <<"a">>)),
                          render(Entry("Key", <<"f">>, <<"a">>)),
                          render(Entry("Key", <<"f">>, <<"b">>))>>
    /\ report.result.duplicate_keys = <<<<<<"f">>, <<1, 2, 3>>>>>>

\* C8: a target term is reported as a duplicate target exactly when it is the
\* target of entries with more than one distinct source term and, in default
\* mode, is not exempt as one Section entry and one Key entry; the reported
\* entry lists every contributing (source, line number, role).
C8_DuplicateTargets ==
    Checked =>
        \A term \in CheckTerms :
            LET dv      == report.result.duplicate_values
                occ     == occurrences({"Key", "Section"}, "target", term)
                sources == {entry_of(glossary.lines[i]).source : i \in occ}
                exempt  == /\ ~report.strict
                           /\ Cardinality(occ) = 2
                           /\ Cardinality({entry_of(glossary.lines[i]).type : i \in occ}) = 2
            IN  /\ dict_has(dv, term) <=> (Cardinality(sources) > 1 /\ ~exempt)
                /\ dict_has(dv, term) =>
                      dict_at(dv, term)
                        = [n \in 1..Cardinality(occ) |->
                             LET e == entry_of(glossary.lines[ascending(occ)[n]])
                             IN  <<e.source, ascending(occ)[n], e.type>>]

\* C9: in strict mode every term with at least two entries is reported by the
\* duplicate-source check and every target with at least two entries by the
\* duplicate-target check, and the strict reports hold everything that the
\* default reports hold for the same glossary.
C9_StrictMode ==
    (Checked /\ report.strict) =>
        LET dk == report.result.duplicate_keys
            dv == report.result.duplicate_values
            default == check_duplicates(glossary.lines, TRUE)
        IN  /\ \A term \in CheckTerms :
                 /\ Cardinality(occurrences({"Key", "Section"}, "source", term)) >= 2
                       => dict_has(dk, term)
                 /\ Cardinality(occurrences({"Key", "Section"}, "target", term)) >= 2
                       => dict_has(dv, term)
            /\ \A i \in 1..Len(default.duplicate_keys) :
                 /\ dict_has(dk, default.duplicate_keys[i][1])
                 /\ dict_at(dk, default.duplicate_keys[i][1]) = default.duplicate_keys[i][2]
            /\ \A i \in 1..Len(default.duplicate_values) :
                 /\ dict_has(dv, default.duplicate_values[i][1])
                 /\ dict_at(dv, default.duplicate_values[i][1]) = default.duplicate_values[i][2]

C9_Witness ==
    /\ Checked /\ report.strict
    /\ glossary.lines = <<render(Entry("Section", <<"f">>, <<"a">>)),
                          render(Entry("Key", <<"g">>, <<"a">>)),
                          render(Entry("Key", <<"f">>, <<"b">>))>>
    /\ dict_has(report.result.duplicate_keys, <<"f">>)
    /\ dict_has(report.result.duplicate_values, <<"a">>)
    /\ check_duplicates(glossary.lines, TRUE).duplicate_keys = <<>>
    /\ check_duplicates(glossary.lines, TRUE).duplicate_values = <<>>

\* C10: loading the glossary never raises: when no glossary file exists or
\* the file cannot be read, the loader warns, the script goes on, and every
\* lookup returns its input unchanged.
C10_LoadNeverRaises ==
    (glossary.status # "ok" /\ prog # "none") =>
        /\ phase # "crashed"
        /\ warned
        /\ lib.translations = <<>>
        /\ lib.section_translations = <<>>
        /\ lib.value_translations = <<>>

(***************************************************************************)
(* Properties of the directory runs                                        *)
(***************************************************************************)

\* the files of the run that ended with one of the given outcomes
handled_with(outcomes) == {i \in 1..Len(history) : history[i].outcome \in outcomes}

\* C11: in a directory run every file handed to translate_file adds exactly
\* one to files_processed (it was written) or to files_skipped (reading it,
\* preparing its output location or writing it failed); no such failure ends
\* the run, and the run returns only after every selected file was attempted.
C11_PerFileFailureCounted ==
    /\ stats.files_processed = Cardinality(handled_with({"ok"}))
    /\ stats.files_skipped =
         Cardinality(handled_with({"read_failed", "mkdir_failed", "write_failed"}))
    /\ stats.files_processed + stats.files_skipped = Len(history)
    /\ history # <<>> => phase # "crashed"
    /\ phase = "finished" => Len(history) = Len(files)

\* the combined run is over: translate_directory returned or an exception
\* left run_all
RunAllEnded == prog = "run_all" /\ phase \in {"finished", "crashed"}

\* C12: in run_all the glossary check has returned its report before the
\* first file is handed to translate_file, and once it has returned, the run
\* does not end before every selected file was handed to translate_file,
\* whatever the report holds.
C12_CheckThenTranslateAll ==
    prog = "run_all" =>
        /\ history # <<>> => report.tool = "run_all"
        /\ (RunAllEnded /\ report.tool = "run_all") => Len(history) = Len(files)

(***************************************************************************)
(* Properties of the loaders                                               *)
(***************************************************************************)

\* a loader has read the glossary file
Loaded == phase = "loaded" /\ glossary.status = "ok"

\* the entry or other line that a line of the glossary file was written from
load_entry_of(line) == CHOOSE e \in LoadEntries : render(e) = line

\* the reserved literal spellings of the loader that ran
loader_reserved == IF prog = "forward" THEN FORWARD_SPECIAL_VALUES ELSE SPECIAL_VALUES

\* the role the classification rule gives to an entry
role_of(e, reserved) ==
    IF e.type = "Section" THEN "Section"
    ELSE IF e.type = "Key" THEN (IF e.source \in reserved THEN "Literal" ELSE "Key")
    ELSE "None"

\* the side of an entry that the map of the running direction is keyed by,
\* and the side it maps to
map_from(e) == IF prog = "forward" THEN e.source ELSE e.target
map_to(e) == IF prog = "forward" THEN e.target ELSE e.source

\* the pairs a map holds when exactly the lines of one role were added to it
\* in file order, a later line replacing the value of an earlier equal term
expected_map(role, reserved) ==
    LET n == Len(glossary.lines)
        e(i) == load_entry_of(glossary.lines[i])
    IN  {<<map_from(e(i)), map_to(e(i))>> :
           i \in {k \in 1..n :
                    /\ role_of(e(k), reserved) = role
                    /\ \A j \in (k + 1)..n :
                         role_of(e(j), reserved) = role => map_from(e(j)) # map_from(e(k))}}

\* the pairs of a dictionary
pairs(d) == {d[i] : i \in 1..Len(d)}

\* C13: after loading, the section map holds exactly the `[A] = [B]` lines,
\* the literal map exactly the flat lines whose A is in the loader's reserved
\* set (compared case-sensitively), the key map exactly the other flat lines;
\* blank lines, lines that start with `#` and lines without `=` are in no map.
C13_LineClassification ==
    Loaded =>
        /\ pairs(lib.section_translations) = expected_map("Section", loader_reserved)
        /\ pairs(lib.value_translations) = expected_map("Literal", loader_reserved)
        /\ pairs(lib.translations) = expected_map("Key", loader_reserved)

\* a glossary with a section line, a reserved flat line and a line that is
\* no entry was loaded
C13_Witness ==
    /\ Loaded
    /\ lib.section_translations # <<>>
    /\ lib.value_translations # <<>>
    /\ lib.translations = <<>>
    /\ \E i \in 1..Len(glossary.lines) :
         load_entry_of(glossary.lines[i]).type \in {"Comment", "Text", "Blank"}

\* the library of each direction for the glossary file: the one the running
\* loader built, and the one the loader of the other direction builds
forward_of_glossary == IF prog = "forward" THEN lib ELSE forward_library(glossary)
reverse_of_glossary == IF prog = "forward" THEN reverse_library(glossary) ELSE lib

\* a set of pairs with the sides of every pair swapped
swapped(P) == {<<p[2], p[1]>> : p \in P}

\* the entries of the glossary file
loaded_entries ==
    {e \in {load_entry_of(glossary.lines[i]) : i \in 1..Len(glossary.lines)} :
        e.type \in {"Section", "Key"}}

\* no two entries of the glossary file have the same source or the same target
NoConflict ==
    \A e1, e2 \in loaded_entries :
        e1 # e2 => e1.source # e2.source /\ e1.target # e2.target

\* the names of the three maps of a library
Maps == {"section_translations", "value_translations", "translations"}

\* C14: both loaders give every glossary line the same role: every term the
\* map of a role maps to in one direction is a term the map of the same role
\* maps from in the other direction, and for a glossary without repeated
\* terms the reverse map of each role is the forward map of that role with
\* the sides of every entry swapped.
C14_SameRoleBothDirections ==
    Loaded =>
        \A m \in Maps :
            LET f == pairs(forward_of_glossary[m])
                r == pairs(reverse_of_glossary[m])
            IN  /\ {p[2] : p \in f} \subseteq {p[1] : p \in r}
                /\ {p[2] : p \in r} \subseteq {p[1] : p \in f}
                /\ NoConflict => r = swapped(f)

\* C15: after loading, every entry of the section map, the literal map and
\* the key map has a source and a target that are not empty after trimming.
C15_NonEmptyTerms ==
    Loaded =>
        \A m \in Maps :
            \A p \in pairs(lib[m]) : strip(p[1]) # <<>> /\ strip(p[2]) # <<>>

\* C16: once a library is built, no call of translate_file in a directory
\* run changes its section map, key map, literal map or priority list, nor
\* the glossary file; only the statistics and the log change.
C16_DictionariesReadOnly ==
    [][phase = "loaded" => lib' = lib /\ glossary' = glossary]_vars

\* two files were translated, one after the other, with a library that has
\* entries, and the statistics and the log changed
C16_Witness ==
    /\ phase = "loaded"
    /\ Len(history) = 2
    /\ stats.files_processed = 2
    /\ lib.section_translations # <<>>
    /\ lib.sorted_keys # <<>>
    /\ stats.sections_translated > 0
    /\ log # <<>>

\* the terms of a sequence
elements(q) == {q[i] : i \in 1..Len(q)}

\* C18: the priority list holds, once each, exactly the terms of the key map
\* whose mapped value differs from the term, the longer terms first.
C18_PriorityList ==
    Loaded =>
        /\ elements(lib.sorted_keys) = {p[1] : p \in {q \in pairs(lib.translations) : q[2] # q[1]}}
        /\ Len(lib.sorted_keys) = Cardinality(elements(lib.sorted_keys))
        /\ \A i, j \in 1..Len(lib.sorted_keys) :
             i < j => Len(lib.sorted_keys[i]) >= Len(lib.sorted_keys[j])

(***************************************************************************)
(* Properties of the rewriters: comments and lines that are not rewritten  *)
(***************************************************************************)

\* the content of the first line of a text, without its terminator
first_line(text) ==
    IF Contains(text, "\n") THEN SubSeq(text, 1, Find(text, "\n") - 1) ELSE text

\* index of the first "#" behind the first separator of a line, 0 if none
comment_start(c) ==
    LET p == FirstSeparator(c) IN
    IF p > 0 /\ \E i \in (p + 1)..Len(c) : c[i] = "#"
    THEN CHOOSE i \in (p + 1)..Len(c) : c[i] = "#" /\ \A j \in (p + 1)..(i - 1) : c[j] # "#"
    ELSE 0

\* c is a key-value line whose value part holds a "#"
HasValueComment(c) ==
    /\ ~startswith(strip(c), "#")
    /\ ~IsSectionLine(c)
    /\ IsKVLine(c, 1)
    /\ comment_start(c) > 0

\* s ends with t
endswith(s, t) == Len(s) >= Len(t) /\ SubSeq(s, Len(s) - Len(t) + 1, Len(s)) = t

\* C17: when the value part of a key-value line holds a "#", the output line
\* ends with one blank followed by everything of the input line from that
\* "#" to the end of the line content, unchanged.
C17_CommentPreserved ==
    (Wrote /\ HasValueComment(first_line(Last.input))) =>
        LET c == first_line(Last.input) IN
        endswith(first_line(Last.output), <<" ">> \o SubSeq(c, comment_start(c), Len(c)))

\* C19: in every rewriter, a section header whose full name is a key of the
\* section map is written with the value the map gives for the full name,
\* also when the part before the first underscore is a key of the map too.
C19_FullMatchWins ==
    \A header \in {F_hid_x, F_H_y} :
        LET name == section_token(header) IN
        (Wrote /\ Last.input = header /\ dict_has(lib.section_translations, name))
            => section_token(Last.output) = dict_at(lib.section_translations, name)

\* a line that is blank, is a comment, or is of neither grammar of the
\* rewriter that ran: the forward key-value pattern needs a character behind
\* the separator, the reverse one does not
PassThrough(c) ==
    \/ strip(c) = <<>>
    \/ startswith(strip(c), "#")
    \/ ~IsSectionLine(c) /\ ~IsKVLine(c, IF prog = "forward" THEN 1 ELSE 0)

\* C20: every line of the input that is blank, starts (after blanks) with
\* "#", or is neither a section header nor a key-value line is the line at
\* the same place of the output, character for character, whatever the
\* library holds and whichever rewriter runs.
C20_PassThrough ==
    Wrote =>
        \A i \in 1..Len(split(Last.input, "\n")) :
            PassThrough(split(Last.input, "\n")[i]) =>
                /\ i <= Len(split(Last.output, "\n"))
                /\ split(Last.output, "\n")[i] = split(Last.input, "\n")[i]

\* a file with lines of every such kind and a key-value line was rewritten
\* with a library that holds a term of these lines, and the key-value line
\* was changed
C20_Witness ==
    /\ Wrote
    /\ Last.input = F_mixed
    /\ dict_has(lib.translations, <<"r", "u", "n">>)
    /\ Last.output # Last.input
    /\ Len(Last.output) > 22
    /\ SubSeq(Last.output, 1, 22) = SubSeq(F_mixed, 1, 22)

(***************************************************************************)
(* Properties of the rewriters: values, terminators and statistics         *)
(***************************************************************************)

\* one-line files whose value has no comma and no comment
SingleValueFiles == {F_TRUE, F_run_LAND, F_running_fast, F_running_sp_fast, F_b_at_a}

\* C21: a value without commas that is a term of the literal map is written
\* as the value the map gives for exactly that term; a value that is not a
\* term of the literal map is written as the key patterns alone leave it.
C21_LiteralExactMatch ==
    \A f \in SingleValueFiles :
        (Wrote /\ Last.input = f) =>
            LET v == value_token(f) IN
            IF dict_has(lib.value_translations, v)
            THEN value_token(Last.output) = dict_at(lib.value_translations, v)
            ELSE value_token(Last.output) = translate_in_text(lib, v).out

\* C22: in every directory run the files are handed to translate_file in
\* lexicographic order of their relative path, one after another.
C22_SortedFileOrder ==
    \A k \in 1..Len(handled) : handled[k] = k

\* the last line of a text has its terminator
terminated(text) == Len(text) > 0 /\ text[Len(text)] = "\n"

\* C23: the file a rewriter writes has as many lines as the file it read, and
\* its last line is terminated exactly when the last line of the input is.
C23_LineTerminators ==
    Wrote =>
        /\ Len(readlines(Last.output)) = Len(readlines(Last.input))
        /\ terminated(Last.output) <=> terminated(Last.input)

\* the three maps of the running rewriter are empty
EmptyDictionary ==
    /\ lib.translations = <<>>
    /\ lib.section_translations = <<>>
    /\ lib.value_translations = <<>>

\* C24: with three empty maps a rewriter writes every file whose values have
\* no comma exactly as it read it.
C24_EmptyDictionaryIdentity ==
    (Wrote /\ EmptyDictionary /\ ~Contains(Last.input, ",")) => Last.output = Last.input

\* the key map of the running script holds run -> `a b` and a -> Z
InsertedTextCase ==
    /\ Wrote
    /\ dict_get(lib.translations, <<"r", "u", "n">>, <<>>) = <<"a", " ", "b">>
    /\ dict_get(lib.translations, <<"a">>, <<>>) = <<"Z">>
    /\ Last.input = F_k_run

\* C25: text inserted as the replacement of one term is never replaced again
\* by a pattern applied later: with key-role entries run -> `a b` and a -> Z,
\* the value `run`, whose only term is run, is written as `a b`.
C25_NoDoubleSubstitution ==
    InsertedTextCase => value_token(Last.output) = <<"a", " ", "b">>

\* the (source, target) pairs the duplicate check records with one type for
\* the glossary file
recorded(type) ==
    LET acc == check_lines(NoEntries, glossary.lines, 1).value_to_keys
    IN  {<<acc[p[1]][2][p[2]][1], acc[p[1]][1]>> :
           p \in {ij \in (1..Len(acc)) \X (1..MaxLoadEntries) :
                           /\ ij[2] <= Len(acc[ij[1]][2])
                           /\ acc[ij[1]][2][ij[2]][3] = type}}

\* the (source, target) pairs the loader that ran holds in a map
held(d) == IF prog = "forward" THEN pairs(d) ELSE swapped(pairs(d))

\* the side of a (source, target) pair that the loader's maps are keyed by
term_of(p) == IF prog = "forward" THEN p[1] ELSE p[2]

\* the loader's pairs H and the checker's records R are one reading of the
\* file: every pair held is recorded, and every record is of a term held
same_reading(H, R) ==
    /\ H \subseteq R
    /\ \A r \in R : \E h \in H : term_of(h) = term_of(r)

\* C26: the duplicate check and the loader read the glossary the same way:
\* the section pairs the loader holds are recorded by check_duplicates as
\* Section with the same source and target, the flat pairs as Key, and the
\* check records nothing for a line the loader skips.
C26_CheckerReadsAsLoader ==
    Loaded =>
        /\ same_reading(held(lib.section_translations), recorded("Section"))
        /\ same_reading(held(lib.translations) \cup held(lib.value_translations),
                        recorded("Key"))

\* what the script of the run counts for the lines of one file
counts_of(content) ==
    IF prog = "forward" THEN forward_file(lib, content)
    ELSE IF prog = "reverse" THEN reverse_file(lib, content)
    ELSE IF prog = "tool" THEN tool_file(lib, content)
    ELSE onekey_file(lib, content)

\* the substitutions counted for the first n files handled, those of the
\* files that were not counted as processed left out
RECURSIVE processed_counts(_)
processed_counts(n) ==
    IF n = 0 THEN [sections |-> 0, keys |-> 0, lines |-> 0]
    ELSE LET rest == processed_counts(n - 1)
             c    == counts_of(history[n].input)
         IN  IF history[n].outcome = "ok"
             THEN [sections |-> rest.sections + c.sections,
                   keys     |-> rest.keys + c.keys,
                   lines    |-> rest.lines + c.lines]
             ELSE rest

\* a directory run returned
DirectoryRunEnded == phase = "finished" /\ prog \in {"forward", "reverse", "tool", "onekey"}

\* C27: after a directory run the section, key and free-text substitution
\* counts of the statistics are the sums over the files counted as processed;
\* a file counted in files_skipped contributes nothing to them.
C27_CountersOfProcessedFiles ==
    DirectoryRunEnded =>
        LET c == processed_counts(Len(history))
        IN  /\ stats.sections_translated = c.sections
            /\ stats.keys_translated = c.keys
            /\ stats.lines_translated = c.lines

\* a rewriter that keeps a translation log wrote its output
WroteWithLog == Wrote /\ prog \in {"tool", "onekey"}

\* the places of the section headers of the input that were written changed
changed_headers ==
    LET ins  == split(Last.input, "\n")
        outs == split(Last.output, "\n")
    IN  {i \in 1..Len(ins) : IsSectionLine(ins[i]) /\ outs[i] # ins[i]}

\* the places of the section records in the translation log
section_records == {k \in 1..Len(log) : log[k].kind = "section"}

\* C28: in the rewriters that keep a log, every section header whose name is
\* changed, by full match or by prefix fallback, adds exactly one to
\* sections_translated and exactly one section record to the log, and an
\* unchanged header adds nothing.
C28_OneCountOneRecordPerHeader ==
    WroteWithLog =>
        /\ stats.sections_translated = Cardinality(changed_headers)
        /\ Cardinality(section_records) = Cardinality(changed_headers)

\* run_all has built the dictionary that translates the project files
RunAllLoaded == prog = "run_all" /\ phase \in {"loaded", "finished"}

\* C29: in run_all the dictionary that translates the project files is built
\* from the glossary file that the integrity check examined, whatever
\* lib_path is.
C29_OneGlossaryFile ==
    RunAllLoaded =>
        lib = reverse_library([status |-> "ok", lines |-> report.examined])

\* the branch that the line dispatch of a rewriter takes for a line, for the
\* key-value pattern of the forward rewriter (min_value = 1) and of the
\* reverse rewriter (min_value = 0)
kind_of(line, min_value) ==
    IF Len(strip(line)) = 0 \/ startswith(strip(line), "#") THEN "skipped"
    ELSE IF IsSectionLine(line) THEN "section"
    ELSE IF IsKVLine(line, min_value) THEN "key-value"
    ELSE "unrecognized"

\* the key, the separator and the value with its comment that a rewriter
\* takes from a key-value line
taken_from(line, min_value) ==
    LET g == KVGroups(line, min_value)
    IN  <<strip(g.key), g.separator, strip(g.value)>>

\* C30: the forward and the reverse rewriter put every line of a file in the
\* same kind (blank or comment, section header, key-value, unrecognized) and
\* take the same key, separator and value from a key-value line.
C30_SameLineGrammar ==
    Wrote =>
        \A i \in 1..Len(split(Last.input, "\n")) :
            LET line == split(Last.input, "\n")[i]
            IN  /\ kind_of(line, 1) = kind_of(line, 0)
                /\ kind_of(line, 0) = "key-value"
                      => taken_from(line, 1) = taken_from(line, 0)

====
